---- MODULE Spec2Model ----
(***************************************************************************)
(* Free Fire API gateway (src/main.py): the region fan-out aggregator      *)
(* get_rank_all_regions, the key-guarded forwarder send_likes and the      *)
(* two-call composer get_profile_full, as state machines over the          *)
(* outcomes of their outbound HTTP calls.                                  *)
(*                                                                         *)
(* JSON objects and Python dicts are sequences of <<key, value>> pairs in  *)
(* insertion order; JSON scalars are strings.                              *)
(***************************************************************************)
EXTENDS Integers, Sequences, FiniteSets, TLC

\* ------------------------------------------------------------------ bounds
\* How many entries of the region list one aggregation iterates.
NumRegions == 3

\* ------------------------------------------------------- program constants
\* main.py:170, the list the loop iterates (also advertised at main.py:36).
AllRegions ==
  <<"IND", "BR", "SG", "RU", "ID", "TW", "US", "VN", "TH", "ME", "PK", "CIS", "BD">>

regions == SubSeq(AllRegions, 1, IF NumRegions < Len(AllRegions) THEN NumRegions ELSE Len(AllRegions))

RegionSet == {regions[i] : i \in 1..Len(regions)}

\* main.py:182, the value recorded when a region's lookup raises.
Sentinel == << <<"error", "Unable to fetch rank for this region">> >>

\* main.py:171 and the default of data.get("result", {}) at main.py:180.
EmptyDict == << >>

\* Player identifiers a caller may pass (main.py:162, an opaque string).
UIDs == {"123456", "777"}

\* The two requests whose handlers may be in progress at the same time.
Slots == {"A", "B"}

\* ------------------------------------------------------------ Python dicts
Keys(d) == [i \in 1..Len(d) |-> d[i][1]]

KeySet(d) == {d[i][1] : i \in 1..Len(d)}

HasKey(d, k) == \E i \in 1..Len(d) : d[i][1] = k

\* d[k] for a key that is present.
Lookup(d, k) == d[CHOOSE i \in 1..Len(d) : d[i][1] = k][2]

\* d.get(k, default)
DictGet(d, k, default) == IF HasKey(d, k) THEN Lookup(d, k) ELSE default

\* d[k] = v: an existing key keeps its position, a new key is appended.
DictSet(d, k, v) ==
  IF HasKey(d, k)
    THEN [i \in 1..Len(d) |-> IF d[i][1] = k THEN <<k, v>> ELSE d[i]]
    ELSE Append(d, <<k, v>>)

\* ------------------------------------------------- upstream call outcomes
\* Statistics fragments the upstream nests under "result".
Fragments == { << <<"kills", "10">> >> }

\* Response bodies: a JSON object (with or without "result"), JSON that is
\* not an object, and text that is not JSON.
BodyWithResult(f) == [json |-> "object", obj |-> << <<"result", f>> >>]
BodyNoResult == [json |-> "object", obj |-> << >>]
BodyNonObject == [json |-> "array", obj |-> << >>]
BodyMalformed == [json |-> "malformed", obj |-> << >>]

Bodies ==
  {BodyWithResult(f) : f \in Fragments} \cup {BodyNoResult, BodyNonObject, BodyMalformed}

Statuses == {200, 404, 500}

NoBody == [json |-> "none", obj |-> << >>]

\* requests.get either returns a response or raises ConnectionError / Timeout.
Response(s, b) == [kind |-> "response", status |-> s, body |-> b]
NetworkError == [kind |-> "ConnectionError", status |-> 0, body |-> NoBody]
TimedOut == [kind |-> "Timeout", status |-> 0, body |-> NoBody]

Outcomes == {Response(s, b) : s \in Statuses, b \in Bodies} \cup {NetworkError, TimedOut}

\* Placeholder for "no call made yet".
NoCall == [kind |-> "none", status |-> 0, body |-> NoBody]

\* One outcome for every path through the loop body.
BranchOutcomes ==
  {Response(200, BodyWithResult(f)) : f \in Fragments}
    \cup {Response(200, BodyNoResult), Response(200, BodyNonObject),
          Response(200, BodyMalformed), Response(500, BodyNoResult),
          NetworkError, TimedOut}

\* The outcome classes of a stable upstream: a fragment, a non-200 answer,
\* a timeout.
StableOutcomes ==
  {Response(200, BodyWithResult(f)) : f \in Fragments}
    \cup {Response(500, BodyNoResult), TimedOut}

\* ---------------------------------------------- get_rank_all_regions body
\* The exception, if any, that the statements of the inner try raise
\* (main.py:175-180): requests.get raises on network error or timeout; the
\* status test has no else; response.json() raises on a malformed body;
\* data.get raises AttributeError when the JSON is not an object.
RaisedInTry(o) ==
  IF o.kind # "response" THEN o.kind
  ELSE IF o.status # 200 THEN "none"
  ELSE IF o.body.json = "malformed" THEN "JSONDecodeError"
  ELSE IF o.body.json # "object" THEN "AttributeError"
  ELSE "none"

\* The bug "except requests.exceptions.Timeout:" in place of the bare except.
InnerCatchesTimeoutOnly(exc) == exc = "Timeout"

\* main.py:181, a bare "except:" catches every exception.
InnerCatches(exc) == TRUE

\* The bug "record the whole body" (data instead of data.get("result", {})).
RecordedValueWholeBody(o) == o.body.obj

\* main.py:179-180, the value recorded for a 200 response with an object body.
RecordedValue(o) == DictGet(o.body.obj, "result", EmptyDict)

\* The bug "rank_data = {region: value}" in place of "rank_data[region] = value".
StoreClobber(rd, region, v) == <<<<region, v>>>>

\* main.py:180 and main.py:182, rank_data[region] = v.
Store(rd, region, v) == DictSet(rd, region, v)

\* One iteration of the loop (main.py:173-182) on rank_data, given the
\* outcome of its call; defined when the iteration does not propagate.
LoopBody(rd, region, o) ==
  IF RaisedInTry(o) # "none" THEN Store(rd, region, Sentinel)
  ELSE IF o.status = 200 THEN Store(rd, region, RecordedValue(o))
  ELSE rd

\* The bug "retry the region that failed".
NextIndexRetry(i, exc) == IF exc = "none" THEN i + 1 ELSE i

\* The for loop moves to the next region whatever the iteration did.
NextIndex(i, exc) == i + 1

\* The bug "one module-level rank_data reused by every request".
NewRankDataStale(prev) == prev

\* main.py:171, rank_data = {} at the start of every request.
NewRankData(prev) == EmptyDict

\* ------------------------------------------------------------- send_likes
\* An optional string: the api_key query parameter (None when absent) and
\* the FF_API_KEY environment variable (None when unset).
Absent == [given |-> FALSE, val |-> ""]
Given(v) == [given |-> TRUE, val |-> v]

QueryKeys == {Absent, Given(""), Given("qkey")}
EnvKeys == {Absent, Given(""), Given("ekey")}

\* Python truthiness of an Optional[str].
Truthy(x) == x.given /\ x.val # ""

\* The bug "os.getenv("FF_API_KEY") or api_key".
ResolveKeyEnvFirst(api_key, env) == IF Truthy(env) THEN env ELSE api_key

\* main.py:140, key = api_key or os.getenv("FF_API_KEY").
ResolveKey(api_key, env) == IF Truthy(api_key) THEN api_key ELSE env

\* response.raise_for_status() raises HTTPError for a 4xx or 5xx status.
RaisesForStatus(status) == status >= 400 /\ status < 600

\* What a single-call forwarder answers for the outcome of its call
\* (main.py:153-158): any RequestException becomes HTTP 500, and so does an
\* exception the handler does not catch.
ForwardStatus(o) ==
  IF o.kind # "response" THEN 500
  ELSE IF RaisesForStatus(o.status) THEN 500
  ELSE IF o.body.json = "malformed" THEN 500
  ELSE 200

\* ------------------------------------------------------- get_profile_full
\* The bug "stats_response.raise_for_status() is missing".
ProfileStatusErrorAccountOnly(account, stats) == RaisesForStatus(account.status)

\* main.py:260-261, either raise_for_status raises.
ProfileStatusError(account, stats) ==
  RaisesForStatus(account.status) \/ RaisesForStatus(stats.status)

\* main.py:263-264, .json().get("result", {}) succeeds on a JSON object only.
ProfileBodyError(account, stats) ==
  account.body.json # "object" \/ stats.body.json # "object"

VARIABLES pc, uid, idx, rank_data, resp, calls, response, task, upstream,
          likes, profile

vars == <<pc, uid, idx, rank_data, resp, calls, response, task, upstream,
          likes, profile>>

NoResponse == [status |-> 0, uid |-> "", rank_by_region |-> EmptyDict]

IdleLikes == [pc |-> "idle", api_key |-> "None", env |-> "None", posts |-> << >>, status |-> 0]

IdleProfile ==
  [pc |-> "idle", account |-> NoCall, stats |-> NoCall, gets |-> << >>, status |-> 0,
   has_profile |-> FALSE]

Init ==
  /\ pc = [s \in Slots |-> "idle"]
  /\ uid = [s \in Slots |-> ""]
  /\ idx = [s \in Slots |-> 0]
  /\ rank_data = [s \in Slots |-> EmptyDict]
  /\ resp = [s \in Slots |-> [r \in RegionSet |-> NoCall]]
  /\ calls = [s \in Slots |-> [r \in RegionSet |-> 0]]
  /\ response = [s \in Slots |-> NoResponse]
  /\ task = [r \in RegionSet |-> "none"]
  /\ upstream = [u \in UIDs |-> [r \in RegionSet |-> NoCall]]
  /\ likes = IdleLikes
  /\ profile = IdleProfile

\* A request for /api/rank-all-regions reaches the handler (main.py:169-171).
ReceiveRank(s, u) ==
  /\ pc[s] \in {"idle", "done"}
  /\ task = [r \in RegionSet |-> "none"]
  /\ likes.pc = "idle"
  /\ profile.pc = "idle"
  /\ pc' = [pc EXCEPT ![s] = "loop"]
  /\ uid' = [uid EXCEPT ![s] = u]
  /\ idx' = [idx EXCEPT ![s] = 1]
  /\ rank_data' = [rank_data EXCEPT ![s] = NewRankData(rank_data[s])]
  /\ resp' = [resp EXCEPT ![s] = [r \in RegionSet |-> NoCall]]
  /\ calls' = [calls EXCEPT ![s] = [r \in RegionSet |-> 0]]
  /\ response' = [response EXCEPT ![s] = NoResponse]
  /\ UNCHANGED <<task, upstream, likes, profile>>

\* One iteration of the loop for regions[idx] with call outcome o
\* (main.py:173-182). An exception the inner except does not catch leaves
\* the loop: the outer except turns a RequestException into HTTPException
\* 500 (main.py:185-186), anything else is the server's 500.
RankIterate(s, o) ==
  /\ pc[s] = "loop"
  /\ idx[s] <= Len(regions)
  /\ LET region == regions[idx[s]]
         exc == RaisedInTry(o)
     IN /\ calls' = [calls EXCEPT ![s][region] = @ + 1]
        /\ resp' = [resp EXCEPT ![s][region] = o]
        /\ IF exc # "none" /\ ~InnerCatches(exc)
             THEN /\ pc' = [pc EXCEPT ![s] = "done"]
                  /\ response' = [response EXCEPT ![s] =
                        [status |-> 500, uid |-> "", rank_by_region |-> EmptyDict]]
                  /\ UNCHANGED <<idx, rank_data>>
             ELSE /\ rank_data' = [rank_data EXCEPT ![s] = LoopBody(@, region, o)]
                  /\ idx' = [idx EXCEPT ![s] = NextIndex(@, exc)]
                  /\ UNCHANGED <<pc, response>>
  /\ UNCHANGED <<uid, task, upstream, likes, profile>>

\* main.py:184, the loop is over and the handler returns.
RankReturn(s) ==
  /\ pc[s] = "loop"
  /\ idx[s] > Len(regions)
  /\ pc' = [pc EXCEPT ![s] = "done"]
  /\ response' = [response EXCEPT ![s] =
        [status |-> 200, uid |-> uid[s], rank_by_region |-> rank_data[s]]]
  /\ UNCHANGED <<uid, idx, rank_data, resp, calls, task, upstream, likes, profile>>

\* A request for /api/send-likes (main.py:140-146): the key is resolved and
\* a request without one is refused with 401 before the try block.
ReceiveLikes(k, e) ==
  /\ likes.pc \in {"idle", "done"}
  /\ profile.pc = "idle"
  /\ \A s \in Slots : pc[s] = "idle"
  /\ likes' = IF ~Truthy(ResolveKey(k, e))
                THEN [pc |-> "done", api_key |-> k, env |-> e, posts |-> << >>, status |-> 401]
                ELSE [pc |-> "post", api_key |-> k, env |-> e, posts |-> << >>, status |-> 0]
  /\ UNCHANGED <<pc, uid, idx, rank_data, resp, calls, response, task, upstream, profile>>

\* main.py:148-158, the POST to the like-sending service with the key.
LikesPost(o) ==
  /\ likes.pc = "post"
  /\ likes' = [likes EXCEPT !.pc = "done",
                            !.posts = Append(@, ResolveKey(likes.api_key, likes.env).val),
                            !.status = ForwardStatus(o)]
  /\ UNCHANGED <<pc, uid, idx, rank_data, resp, calls, response, task, upstream, profile>>

\* A request for /api/profile-full reaches the handler (main.py:252-255).
ReceiveProfile ==
  /\ profile.pc \in {"idle", "done"}
  /\ likes.pc = "idle"
  /\ \A s \in Slots : pc[s] = "idle"
  /\ profile' = [IdleProfile EXCEPT !.pc = "account"]
  /\ UNCHANGED <<pc, uid, idx, rank_data, resp, calls, response, task, upstream, likes>>

\* main.py:257, the account call; a raise goes to the except clause (500).
ProfileGetAccount(o) ==
  /\ profile.pc = "account"
  /\ profile' = IF o.kind # "response"
                  THEN [profile EXCEPT !.pc = "done", !.account = o,
                                       !.gets = Append(@, "account"), !.status = 500]
                  ELSE [profile EXCEPT !.pc = "stats", !.account = o,
                                       !.gets = Append(@, "account")]
  /\ UNCHANGED <<pc, uid, idx, rank_data, resp, calls, response, task, upstream, likes>>

\* main.py:258, the playerstats call.
ProfileGetStats(o) ==
  /\ profile.pc = "stats"
  /\ profile' = IF o.kind # "response"
                  THEN [profile EXCEPT !.pc = "done", !.stats = o,
                                       !.gets = Append(@, "playerstats"), !.status = 500]
                  ELSE [profile EXCEPT !.pc = "compose", !.stats = o,
                                       !.gets = Append(@, "playerstats")]
  /\ UNCHANGED <<pc, uid, idx, rank_data, resp, calls, response, task, upstream, likes>>

\* main.py:260-312, both status checks, both bodies, then the profile.
ProfileCompose ==
  /\ profile.pc = "compose"
  /\ profile' = IF ProfileStatusError(profile.account, profile.stats)
                     \/ ProfileBodyError(profile.account, profile.stats)
                  THEN [profile EXCEPT !.pc = "done", !.status = 500]
                  ELSE [profile EXCEPT !.pc = "done", !.status = 200, !.has_profile = TRUE]
  /\ UNCHANGED <<pc, uid, idx, rank_data, resp, calls, response, task, upstream, likes>>

Next ==
  \/ \E u \in UIDs : ReceiveRank("A", u)
  \/ \E o \in Outcomes : RankIterate("A", o)
  \/ RankReturn("A")
  \/ \E k \in QueryKeys, e \in EnvKeys : ReceiveLikes(k, e)
  \/ \E o \in Outcomes : LikesPost(o)
  \/ ReceiveProfile
  \/ \E o \in Outcomes : ProfileGetAccount(o)
  \/ \E o \in Outcomes : ProfileGetStats(o)
  \/ ProfileCompose

Spec == Init /\ [][Next]_vars
\* ------------------------------------------------ concurrent dispatch
\* The same request with the loop's iterations dispatched as one task per
\* region, with no synchronization between them (main.py:169-171).
ReceiveRankConc(u) ==
  /\ pc["A"] \in {"idle", "done"}
  /\ likes.pc = "idle"
  /\ profile.pc = "idle"
  /\ pc' = [pc EXCEPT !["A"] = "fanout"]
  /\ uid' = [uid EXCEPT !["A"] = u]
  /\ idx' = [idx EXCEPT !["A"] = 0]
  /\ rank_data' = [rank_data EXCEPT !["A"] = NewRankData(rank_data["A"])]
  /\ resp' = [resp EXCEPT !["A"] = [r \in RegionSet |-> NoCall]]
  /\ calls' = [calls EXCEPT !["A"] = [r \in RegionSet |-> 0]]
  /\ response' = [response EXCEPT !["A"] = NoResponse]
  /\ task' = [r \in RegionSet |-> "pending"]
  /\ UNCHANGED <<upstream, likes, profile>>

\* A task's call returns or raises (main.py:175-177).
TaskFetch(r, o) ==
  /\ pc["A"] = "fanout"
  /\ task[r] = "pending"
  /\ task' = [task EXCEPT ![r] = "fetched"]
  /\ calls' = [calls EXCEPT !["A"][r] = @ + 1]
  /\ resp' = [resp EXCEPT !["A"][r] = o]
  /\ UNCHANGED <<pc, uid, idx, rank_data, response, upstream, likes, profile>>

\* The task runs the rest of the loop body on the shared rank_data
\* (main.py:178-182).
TaskRecord(r) ==
  /\ pc["A"] = "fanout"
  /\ task[r] = "fetched"
  /\ task' = [task EXCEPT ![r] = "done"]
  /\ LET exc == RaisedInTry(resp["A"][r])
     IN IF exc # "none" /\ ~InnerCatches(exc)
          THEN /\ pc' = [pc EXCEPT !["A"] = "done"]
               /\ response' = [response EXCEPT !["A"] =
                     [status |-> 500, uid |-> "", rank_by_region |-> EmptyDict]]
               /\ UNCHANGED rank_data
          ELSE /\ rank_data' = [rank_data EXCEPT !["A"] = LoopBody(@, r, resp["A"][r])]
               /\ UNCHANGED <<pc, response>>
  /\ UNCHANGED <<uid, idx, calls, resp, upstream, likes, profile>>

\* Every task has finished; the handler returns (main.py:184).
JoinReturn ==
  /\ pc["A"] = "fanout"
  /\ \A r \in RegionSet : task[r] = "done"
  /\ pc' = [pc EXCEPT !["A"] = "done"]
  /\ response' = [response EXCEPT !["A"] =
        [status |-> 200, uid |-> uid["A"], rank_by_region |-> rank_data["A"]]]
  /\ task' = [r \in RegionSet |-> "none"]
  /\ UNCHANGED <<uid, idx, rank_data, resp, calls, upstream, likes, profile>>

NextConc ==
  \/ \E u \in UIDs : ReceiveRankConc(u)
  \/ \E r \in RegionSet, o \in BranchOutcomes : TaskFetch(r, o)
  \/ \E r \in RegionSet : TaskRecord(r)
  \/ JoinReturn

SpecConc == Init /\ [][NextConc]_vars

\* ------------------------------------------------------ stable upstream
\* Two request slots against an upstream whose answer for (uid, region)
\* never changes.
InitStable ==
  /\ pc = [s \in Slots |-> "idle"]
  /\ uid = [s \in Slots |-> ""]
  /\ idx = [s \in Slots |-> 0]
  /\ rank_data = [s \in Slots |-> EmptyDict]
  /\ resp = [s \in Slots |-> [r \in RegionSet |-> NoCall]]
  /\ calls = [s \in Slots |-> [r \in RegionSet |-> 0]]
  /\ response = [s \in Slots |-> NoResponse]
  /\ task = [r \in RegionSet |-> "none"]
  /\ upstream \in [UIDs -> [RegionSet -> StableOutcomes]]
  /\ likes = IdleLikes
  /\ profile = IdleProfile

\* main.py:175-177, the call for (region, uid) against the stable upstream.
Fetch(s) == upstream[uid[s]][regions[idx[s]]]

NextStable ==
  \/ \E s \in Slots, u \in UIDs : ReceiveRank(s, u)
  \/ \E s \in Slots : pc[s] = "loop" /\ idx[s] <= Len(regions) /\ RankIterate(s, Fetch(s))
  \/ \E s \in Slots : RankReturn(s)

SpecStable == InitStable /\ [][NextStable]_vars

\* ------------------------------------------------------------------ claims
\* The ways a region's call fails: network error, timeout, non-success
\* status, a body that is not JSON.
CallFailed(o) ==
  \/ o.kind \in {"ConnectionError", "Timeout"}
  \/ o.kind = "response" /\ o.status # 200
  \/ o.kind = "response" /\ o.status = 200 /\ o.body.json = "malformed"

\* A success status with a well-formed body: 200 and a JSON object.
CallSucceeded(o) == o.kind = "response" /\ o.status = 200 /\ o.body.json = "object"

\* C1: whatever the per-region outcomes, the key set of the returned
\* rank_by_region is exactly the set of supported regions.
C1_KeySetIsAllRegions ==
  \A s \in Slots :
    pc[s] = "done" => KeySet(response[s].rank_by_region) = RegionSet

\* C2: every region whose call failed (network error, timeout, non-success
\* status, malformed body) has exactly the error sentinel under its key.
C2_FailedRegionHasSentinel ==
  \A s \in Slots : \A r \in RegionSet :
    (pc[s] = "done" /\ CallFailed(resp[s][r])) =>
      /\ HasKey(response[s].rank_by_region, r)
      /\ Lookup(response[s].rank_by_region, r) = Sentinel

C4_NoRequestLevelFailure ==
  \A s \in Slots :
    pc[s] = "done" =>
      /\ response[s].status = 200
      /\ response[s].uid = uid[s]
      /\ response[s].rank_by_region = rank_data[s]
      /\ (\A r \in RegionSet : CallFailed(resp[s][r])) =>
           \A i \in 1..Len(response[s].rank_by_region) :
             response[s].rank_by_region[i][2] = Sentinel

C4_Witness ==
  /\ pc["A"] = "done"
  /\ \A r \in RegionSet : CallFailed(resp["A"][r])
  /\ \E r \in RegionSet : resp["A"][r].kind = "Timeout"
  /\ \E r \in RegionSet : resp["A"][r].kind = "response" /\ resp["A"][r].status = 500
  /\ \E r \in RegionSet : resp["A"][r].body.json = "malformed"
  /\ response["A"].rank_by_region # EmptyDict

\* C5: one outbound call per region: during the loop every region already
\* iterated has been called exactly once and no other region has been
\* called, whatever failed, and at the return every region has been called
\* exactly once.
C5_OneCallPerRegion ==
  \A s \in Slots :
    /\ pc[s] = "loop" =>
         \A i \in 1..Len(regions) :
           calls[s][regions[i]] = (IF i < idx[s] THEN 1 ELSE 0)
    /\ pc[s] = "done" => \A r \in RegionSet : calls[s][r] = 1

C5_Witness ==
  /\ pc["A"] = "done"
  /\ \A r \in RegionSet : calls["A"][r] = 1
  /\ CallFailed(resp["A"][regions[1]])
  /\ CallSucceeded(resp["A"][regions[Len(regions)]])

\* C8: at every point of the loop the keys of rank_data are, in order, the
\* regions already iterated, whichever of them failed.
C8_KeysAreIteratedRegions ==
  \A s \in Slots :
    /\ pc[s] = "loop" => Keys(rank_data[s]) = SubSeq(regions, 1, idx[s] - 1)
    /\ pc[s] = "done" => Keys(response[s].rank_by_region) = regions

\* C9: send_likes refuses with 401 and posts nothing when neither the query
\* parameter nor the environment gives a non-empty key; a POST carries a
\* non-empty key, the query parameter's when it is non-empty and the
\* environment's otherwise, and there is at most one POST.
C9_NoPostWithoutKey ==
  /\ (likes.pc = "done" /\ ~Truthy(likes.api_key) /\ ~Truthy(likes.env)) =>
       (likes.status = 401 /\ likes.posts = << >>)
  /\ likes.status = 401 => likes.posts = << >>
  /\ Len(likes.posts) <= 1
  /\ \A i \in 1..Len(likes.posts) :
       /\ likes.posts[i] # ""
       /\ likes.posts[i] =
            (IF Truthy(likes.api_key) THEN likes.api_key.val ELSE likes.env.val)
  /\ (likes.pc = "done" /\ (Truthy(likes.api_key) \/ Truthy(likes.env))) =>
       Len(likes.posts) = 1

C9_Witness ==
  /\ likes.pc = "done"
  /\ likes.api_key = Given("qkey")
  /\ likes.env = Given("ekey")
  /\ likes.posts = <<"qkey">>

\* C10: get_profile_full answers with a profile only when both calls
\* returned a success status; when either call raised or returned a
\* non-success status it answers 500 without a profile, whatever the other
\* call did.
ProfileCallFailed(o) ==
  o.kind \in {"ConnectionError", "Timeout"} \/ (o.kind = "response" /\ o.status \notin 200..299)

AsMapping(d) == {<<d[i][1], d[i][2]>> : i \in 1..Len(d)}

\* rank_data after the sequential loop has run regions[1..n] with the
\* outcomes o[region].
RECURSIVE SequentialRun(_, _)
SequentialRun(o, n) ==
  IF n = 0 THEN NewRankData(EmptyDict)
  ELSE LoopBody(SequentialRun(o, n - 1), regions[n], o[regions[n]])

\* C6: with one unsynchronized task per region, a task's write changes only
\* its own region's key, and under every interleaving the mapping returned
\* equals the one the sequential loop builds from the same outcomes.
C6_ConcurrentEqualsSequential ==
  [][/\ pc'["A"] = "done" =>
          /\ response'["A"].status = 200
          /\ AsMapping(response'["A"].rank_by_region)
               = AsMapping(SequentialRun(resp'["A"], Len(regions)))
     /\ \A r \in RegionSet :
          (task[r] = "fetched" /\ task'[r] = "done") =>
            \A k \in RegionSet \ {r} :
              /\ HasKey(rank_data'["A"], k) <=> HasKey(rank_data["A"], k)
              /\ HasKey(rank_data["A"], k) =>
                   Lookup(rank_data'["A"], k) = Lookup(rank_data["A"], k)]_vars

\* Two tasks whose writes happened in the opposite order of the list.
C6_Witness ==
  /\ pc["A"] = "done"
  /\ Len(response["A"].rank_by_region) >= 2
  /\ Keys(response["A"].rank_by_region)[1] = regions[Len(regions)]
  /\ \E r \in RegionSet : resp["A"][r].kind = "Timeout"
  /\ \E r \in RegionSet : CallSucceeded(resp["A"][r])

\* C7: two requests with the same uid, one after the other or overlapping,
\* against an unchanged upstream return identical mappings.
C7_Idempotent ==
  \A s \in Slots : \A q \in Slots :
    (pc[s] = "done" /\ pc[q] = "done" /\ uid[s] = uid[q]) =>
      response[s] = response[q]

C7_Witness ==
  /\ pc["A"] = "done"
  /\ pc["B"] = "done"
  /\ uid["A"] = uid["B"]
  /\ \E r \in RegionSet : upstream[uid["A"]][r] = TimedOut
  /\ \E r \in RegionSet : upstream[uid["A"]][r].status = 500
  /\ \E r \in RegionSet : CallSucceeded(upstream[uid["A"]][r])
====
